---- MODULE Spec2Model ----
(***************************************************************************)
(* The alert engine of the DEX monitor (dex_monitor/alerts/alert_manager.py *)
(* driven by dex_monitor/core/monitor.py) as a state machine.               *)
(*                                                                         *)
(* Every producer is an asyncio task.  A task runs alone from one          *)
(* suspension point to the next; the only suspension point inside          *)
(* process_event is `await callback(alert)` in _emit_alert, and only when   *)
(* the callback itself suspends.  A task's position is task[t].pc:         *)
(*   idle     not inside _process_event                                    *)
(*   store    _emit_alert entered, line 237 next                           *)
(*   persist  line 240 next                                                *)
(*   notify   the callback loop, lines 243-247, at callback task[t].idx    *)
(*   cb_wait  suspended inside callback task[t].idx                        *)
(*   post     _emit_alert returned to the rule that called it              *)
(* Money is in whole dollars, prices of stablecoins in cents, percentages  *)
(* in whole percents, time in minutes.                                     *)
(***************************************************************************)
EXTENDS Integers, Sequences, FiniteSets, TLC

\* ---------------------------------------------------------------- bounds
MaxTime == 10
TickMinutes == 5
MaxEvents == 2
MaxPriceEvents == 3
MaxCallbacks == 2
MaxSwaps == 52
MaxPricePushes == 101
BaseVolume == 1000
MaxResolves == 2
MaxLoopRuns == 2
MaxClock == 4
MaxCalls == 2
MaxWindow == 3
SpikeVolume == 3 * BaseVolume

\* ---------------------------------------------------- program constants
PriceWindowCap == 100
VolumeWindowCap == 50
DepegThresholdPct == 5
PriceChangeThresholdPct == 10
VolumeSpikeThreshold == 2
CooldownMinutes == 10
MinVolumeSamples == 10
LiquidityThresholdUsd == 1000000
DepegCriticalPct == 20
DepegHighPct == 10
PriceChangeHighPct == 20
VolumeHighMultiplier == 5
ExpectedPriceCents == 100

Stablecoins == {"USDC", "USDT", "DAI", "FRAX"}

\* ------------------------------------------------------------ input sets
Tasks == {"p1", "p2"}
Symbols == Stablecoins \cup {"WETH"}
PricesCents == {70, 88, 98}
LiquidityKinds == {"liquidity_add", "liquidity_remove"}
LiquidityDeltas == {999999, 1000000, -1500000}
CallbackKinds == {"ok", "fail", "slow"}

NoTime == -1
NoPair == [pair_name |-> "", pool_address |-> ""]
Pool1 == [pair_name |-> "USDC/WETH", pool_address |-> "0x88e6"]
DepegPair == [pair_name |-> "USDC/USDT", pool_address |-> "0x3416"]
Pairs == {Pool1}

NoEvent ==
    [type |-> "none", timestamp |-> 0, symbol |-> "", price |-> 0, change |-> 0,
     pair |-> NoPair, amount_in |-> 0, in_price |-> 0, kind |-> "", delta |-> 0]

SwapEvent(ts, pair, amount, inPrice) ==
    [NoEvent EXCEPT !.type = "swap", !.timestamp = ts, !.pair = pair,
                    !.amount_in = amount, !.in_price = inPrice]

LiquidityEvent(ts, pair, kind, delta) ==
    [NoEvent EXCEPT !.type = "liquidity", !.timestamp = ts, !.pair = pair,
                    !.kind = kind, !.delta = delta]

PriceData(ts, symbol, price, change) ==
    [NoEvent EXCEPT !.type = "price", !.timestamp = ts, !.symbol = symbol,
                    !.price = price, !.change = change]

NoAlert ==
    [id |-> 0, event_type |-> "", severity |-> "", timestamp |-> 0,
     subject |-> "", value |-> 0, resolved |-> FALSE, resolved_at |-> NoTime]

\* nothing submitted yet
NoFeed ==
    [swaps |-> 0, spikes |-> 0, spike_at |-> 0, prices |-> 0, liquidity |-> 0,
     resolves |-> 0, absent |-> 0]

\* DEXMonitor.__init__, lines 26-39 of monitor.py: not running, no task yet;
\* the counts are those of the calls made on the persistence sink, of those
\* among them that raised and of _cleanup, late is set by a maintenance write begun after stop(), emitting
\* holds the alerts whose emission was under way when stop() was called,
\* restart is where a second call of start() and the loops it creates stand
NewMonitor ==
    [running |-> FALSE, stopped |-> FALSE, start |-> "new", sim |-> "none",
     stats |-> "none", cleanup |-> "none", stats_writes |-> 0,
     cleanup_runs |-> 0, cleanups |-> 0, late |-> FALSE, emitting |-> {},
     stats_errors |-> 0, cleanup_errors |-> 0,
     restart |-> [start |-> "none", stats |-> "none", cleanup |-> "none"]]

\* a configuration key that the loaded file does not hold
NoValue == -1
ThresholdKeys ==
    {"alerts.depeg_threshold", "alerts.price_change_threshold",
     "alerts.volume_spike_threshold"}
ConfigKeys == ThresholdKeys \cup {"alerts.cooldown_minutes"}
\* a configuration file without an alerts section
NoConfig == [k \in ConfigKeys |-> NoValue]
\* no AlertManager yet
NoManager ==
    [built |-> FALSE, depeg_threshold |-> NoValue,
     price_change_threshold |-> NoValue, volume_spike_threshold |-> NoValue,
     cooldown_duration |-> NoValue]

\* RateLimiter.__init__, lines 100-110 of helpers.py; accepted is the
\* history of the times at which make_call returned True
NewRateLimiter(max_calls, time_window) ==
    [max_calls |-> max_calls, time_window |-> time_window, calls |-> <<>>,
     accepted |-> <<>>]

IdleTask == [pc |-> "idle", event |-> NoEvent, alert |-> 0, idx |-> 0, rule |-> ""]

VARIABLES
    now,                     \* datetime.utcnow(), minutes
    active_alerts,           \* AlertManager.active_alerts: the ids it holds
    alert_callbacks,         \* AlertManager.alert_callbacks: callbacks by kind
    price_history,           \* AlertManager.price_history
    volume_history,          \* AlertManager.volume_history
    alert_cooldown,          \* AlertManager.alert_cooldown
    alerts,                  \* every Alert object created, by id
    db,                      \* the calls of db_manager.insert_alert
    delivered,               \* per callback, the alerts it was invoked with
    task,                    \* each producer's position in _process_event
    total_events_processed,  \* DEXMonitor.total_events_processed
    feed,                    \* what was submitted so far: events by source,
                             \* resolve_alert calls and those that found nothing
    monitor,                 \* DEXMonitor: running, and where start() and the
                             \* tasks it creates stand
    config,                  \* Config._config, by dotted key
    manager,                 \* AlertManager: built, and the thresholds and
                             \* the cooldown duration its constructor set
    limiter,                 \* a RateLimiter: max_calls, time_window, calls
    clock                    \* time.time(), seconds

vars == <<now, active_alerts, alert_callbacks, price_history, volume_history,
          alert_cooldown, alerts, db, delivered, task, total_events_processed,
          feed, monitor, config, manager, limiter, clock>>

\* --------------------------------------------------------- configuration
\* Config.get, lines 36-55 of config.py: the dotted key is walked through the
\* loaded mapping; a key that is not there gives the caller's default
ConfigGet(key, default) ==
    IF config[key] = NoValue THEN default ELSE config[key]

\* AlertManager.__init__, lines 32-39: the three thresholds are read from the
\* configuration with their literal defaults, the cooldown is the literal
\* timedelta(minutes=10)
BuiltManager ==
    [built |-> TRUE,
     depeg_threshold |-> ConfigGet("alerts.depeg_threshold", DepegThresholdPct),
     price_change_threshold |->
         ConfigGet("alerts.price_change_threshold", PriceChangeThresholdPct),
     volume_spike_threshold |->
         ConfigGet("alerts.volume_spike_threshold", VolumeSpikeThreshold),
     cooldown_duration |-> CooldownMinutes]

\* --------------------------------------------------------------- helpers
Abs(x) == IF x < 0 THEN -x ELSE x

RECURSIVE SumSeq(_)
SumSeq(s) == IF s = <<>> THEN 0 ELSE Head(s) + SumSeq(Tail(s))

PairKey(pair) == <<pair.pair_name, pair.pool_address>>
DepegKey(symbol) == <<"depeg", symbol>>
VolumeSpikeKey(pair) == <<"volume_spike", pair.pool_address>>
CooldownKeys ==
    {DepegKey(s) : s \in Stablecoins} \cup {VolumeSpikeKey(p) : p \in Pairs}

\* a window that makes room by dropping its newest sample
PushDropsNewest(window, sample, cap) ==
    IF Len(window) >= cap THEN Append(SubSeq(window, 1, Len(window) - 1), sample)
    ELSE Append(window, sample)

\* deque(maxlen=cap).append(sample)
Push(window, sample, cap) ==
    IF Len(window) >= cap THEN Append(Tail(window), sample)
    ELSE Append(window, sample)

\* one timer for every key: the latest firing of any key counts
IsOnCooldownOfAnyKey(key) ==
    \E k \in CooldownKeys :
        /\ alert_cooldown[k] # NoTime
        /\ now - alert_cooldown[k] < manager.cooldown_duration

IsOnCooldown(key) ==
    /\ alert_cooldown[key] # NoTime
    /\ now - alert_cooldown[key] < manager.cooldown_duration

\* ----------------------------------------------------------------- rules
VolumeUsd(ev) == ev.amount_in * (IF ev.in_price = 0 THEN 1 ELSE ev.in_price)

\* the nine oldest samples of the window, volume_data[0:9]
RecentVolumesOldest(window) ==
    [i \in 1..9 |-> window[i].volume]

\* the slice taken one place too late, volume_data[-9:]
RecentVolumesWithCurrent(window) ==
    [i \in 1..9 |-> window[Len(window) - 9 + i].volume]

\* volume_data[-10:-1]: the nine samples before the last one
RecentVolumes(window) ==
    [i \in 1..9 |-> window[Len(window) - 10 + i].volume]

\* avg_volume > 0 and current_volume > avg_volume * threshold, avg = sum / 9
VolumeSpikes(window, current) ==
    /\ Len(window) >= MinVolumeSamples
    /\ SumSeq(RecentVolumes(window)) > 0
    /\ current * 9 > SumSeq(RecentVolumes(window)) * manager.volume_spike_threshold

\* spike_multiplier = current_volume / avg_volume, in hundredths
SpikeMultiplierX100(window, current) ==
    (current * 9 * 100) \div SumSeq(RecentVolumes(window))

\* the multiplier of five taken as already high
VolumeSeverityFromFive(multX100) ==
    IF multX100 >= VolumeHighMultiplier * 100 THEN "high" ELSE "medium"

VolumeSeverity(multX100) ==
    IF multX100 > VolumeHighMultiplier * 100 THEN "high" ELSE "medium"

\* deviation * 100, for a price in cents and an expected price of $1
DeviationPct(price) == (Abs(price - ExpectedPriceCents) * 100) \div ExpectedPriceCents

\* the severity ladder read one rung too low
DepegSeverityOneRungLow(dev) ==
    IF dev > DepegHighPct THEN "critical"
    ELSE IF dev > DepegThresholdPct THEN "high"
    ELSE "medium"

DepegSeverity(dev) ==
    IF dev > DepegCriticalPct THEN "critical"
    ELSE IF dev > DepegHighPct THEN "high"
    ELSE "medium"

\* a companion pair found for every symbol
RelevantPairAlways(symbol) == DepegPair

\* relevant_pair: only USDC gets one
RelevantPair(symbol) == IF symbol = "USDC" THEN DepegPair ELSE NoPair

DepegFires(ev) ==
    /\ ev.symbol \in Stablecoins
    /\ DeviationPct(ev.price) > manager.depeg_threshold
    /\ ~IsOnCooldown(DepegKey(ev.symbol))
    /\ RelevantPair(ev.symbol) # NoPair

PriceChangeFires(ev) ==
    /\ ev.change # 0
    /\ Abs(ev.change) > manager.price_change_threshold

PriceChangeSeverity(change) ==
    IF Abs(change) > PriceChangeHighPct THEN "high" ELSE "medium"

\* the threshold taken as inclusive
LiquidityFiresAtThreshold(ev) ==
    /\ ev.kind = "liquidity_remove"
    /\ Abs(ev.delta) >= LiquidityThresholdUsd

LiquidityFires(ev) ==
    /\ ev.kind = "liquidity_remove"
    /\ Abs(ev.delta) > LiquidityThresholdUsd

NewAlert(eventType, severity, ts, subject, value) ==
    [NoAlert EXCEPT !.id = Len(alerts) + 1, !.event_type = eventType,
                    !.severity = severity, !.timestamp = ts,
                    !.subject = subject, !.value = value]

\* ------------------------------------------------------------ scheduling
Suspended(t) == task[t].pc \in {"idle", "cb_wait"}
CanRun(t) == \A u \in Tasks \ {t} : Suspended(u)
Quiescent == \A u \in Tasks : Suspended(u)
InFlight == Cardinality({t \in Tasks : task[t].pc # "idle"})
MayIngest(t) ==
    /\ task[t].pc = "idle"
    /\ CanRun(t)

\* _process_event, lines 59-60 of monitor.py: process_event returned (or its
\* except clause swallowed the error); the event is counted
Finish(t) ==
    /\ task' = [task EXCEPT ![t] = IdleTask]
    /\ total_events_processed' = total_events_processed + 1

\* the rule built an Alert and calls _emit_alert with it
StartEmit(t, ev, rule, alert) ==
    /\ alerts' = Append(alerts, alert)
    /\ task' = [task EXCEPT ![t] =
                  [pc |-> "store", event |-> ev, alert |-> alert.id,
                   idx |-> 0, rule |-> rule]]
    /\ UNCHANGED total_events_processed

\* lines 114-132 of _process_price_data
PriceChangeRule(t, ev) ==
    IF PriceChangeFires(ev)
    THEN StartEmit(t, ev, "price_change",
                   NewAlert("price_change", PriceChangeSeverity(ev.change),
                            ev.timestamp, ev.symbol, ev.change))
    ELSE Finish(t) /\ UNCHANGED alerts

\* --------------------------------------------------------------- actions
Init ==
    /\ now = 0
    /\ active_alerts = {}
    /\ alert_callbacks = <<>>
    /\ price_history = [s \in Symbols |-> <<>>]
    /\ volume_history = [p \in Pairs |-> <<>>]
    /\ alert_cooldown = [k \in CooldownKeys |-> NoTime]
    /\ alerts = <<>>
    /\ db = <<>>
    /\ delivered = <<>>
    /\ task = [t \in Tasks |-> IdleTask]
    /\ total_events_processed = 0
    /\ feed = NoFeed
    /\ monitor = NewMonitor
    /\ config = NoConfig
    /\ manager = BuiltManager
    /\ limiter = NewRateLimiter(1, 1)
    /\ clock = 0

Tick ==
    /\ Quiescent
    /\ now + TickMinutes <= MaxTime
    /\ now' = now + TickMinutes
    /\ UNCHANGED <<active_alerts, alert_callbacks, price_history, volume_history,
                   alert_cooldown, alerts, db, delivered, task,
                   total_events_processed, feed, monitor, config, manager, limiter, clock>>

AddAlertCallback(kind) ==
    /\ Quiescent
    /\ Len(alert_callbacks) < MaxCallbacks
    /\ alert_callbacks' = Append(alert_callbacks, kind)
    /\ delivered' = Append(delivered, <<>>)
    /\ UNCHANGED <<now, active_alerts, price_history, volume_history,
                   alert_cooldown, alerts, db, task, total_events_processed, feed, monitor, config, manager, limiter, clock>>

ProcessSwapEvent(t, ev) ==
    /\ MayIngest(t)
    /\ feed' = [feed EXCEPT !.swaps = @ + 1,
                            !.spikes = @ + (IF VolumeUsd(ev) # BaseVolume THEN 1 ELSE 0),
                            !.spike_at = IF VolumeUsd(ev) # BaseVolume
                                         THEN feed.swaps + 1 ELSE @]
    /\ LET key == ev.pair
           vol == VolumeUsd(ev)
           window == Push(volume_history[key],
                          [timestamp |-> ev.timestamp, volume |-> vol],
                          VolumeWindowCap)
       IN /\ volume_history' = [volume_history EXCEPT ![key] = window]
          /\ IF VolumeSpikes(window, vol) /\ ~IsOnCooldown(VolumeSpikeKey(ev.pair))
             THEN StartEmit(t, ev, "volume_spike",
                            NewAlert("volume_spike",
                                     VolumeSeverity(SpikeMultiplierX100(window, vol)),
                                     now, ev.pair.pool_address,
                                     SpikeMultiplierX100(window, vol)))
             ELSE Finish(t) /\ UNCHANGED alerts
    /\ UNCHANGED <<now, active_alerts, alert_callbacks, price_history,
                   alert_cooldown, db, delivered, monitor, config, manager, limiter, clock>>

ProcessLiquidityEvent(t, ev) ==
    /\ MayIngest(t)
    /\ feed' = [feed EXCEPT !.liquidity = @ + 1]
    /\ IF LiquidityFires(ev)
       THEN StartEmit(t, ev, "liquidity",
                      NewAlert("liquidity_remove", "high", ev.timestamp,
                               ev.pair.pool_address, Abs(ev.delta)))
       ELSE Finish(t) /\ UNCHANGED alerts
    /\ UNCHANGED <<now, active_alerts, alert_callbacks, price_history,
                   volume_history, alert_cooldown, db, delivered, monitor, config, manager, limiter, clock>>

\* one window shared by every token
PriceWindowKeyShared(ev) == "USDC"

\* token_symbol = price_data.token.symbol, line 101
PriceWindowKey(ev) == ev.symbol

ProcessPriceData(t, ev) ==
    /\ MayIngest(t)
    /\ feed' = [feed EXCEPT !.prices = @ + 1]
    /\ price_history' =
         [price_history EXCEPT ![PriceWindowKey(ev)] =
            Push(@, [timestamp |-> ev.timestamp, price |-> ev.price],
                 PriceWindowCap)]
    /\ IF DepegFires(ev)
       THEN StartEmit(t, ev, "depeg",
                      NewAlert("depeg_alert",
                               DepegSeverity(DeviationPct(ev.price)),
                               ev.timestamp, ev.symbol, DeviationPct(ev.price)))
       ELSE PriceChangeRule(t, ev)
    /\ UNCHANGED <<now, active_alerts, alert_callbacks, volume_history,
                   alert_cooldown, db, delivered, monitor, config, manager, limiter, clock>>

\* an emission that goes to the sink without entering the active map
EmitStoreSkipsMap(t) ==
    /\ task[t].pc = "store"
    /\ task' = [task EXCEPT ![t].pc = "persist"]
    /\ UNCHANGED <<now, active_alerts, alert_callbacks, price_history,
                   volume_history, alert_cooldown, alerts, db, delivered,
                   total_events_processed, feed, monitor, config, manager, limiter, clock>>

\* _emit_alert, line 237
EmitStore(t) ==
    /\ task[t].pc = "store"
    /\ active_alerts' = active_alerts \cup {task[t].alert}
    /\ task' = [task EXCEPT ![t].pc = "persist"]
    /\ UNCHANGED <<now, alert_callbacks, price_history, volume_history,
                   alert_cooldown, alerts, db, delivered, total_events_processed, feed, monitor, config, manager, limiter, clock>>

DbCall(id, ok) == [id |-> id, resolved |-> alerts[id].resolved, ok |-> ok]

\* _emit_alert, line 240, insert_alert returns
PersistOk(t) ==
    /\ task[t].pc = "persist"
    /\ db' = Append(db, DbCall(task[t].alert, TRUE))
    /\ task' = [task EXCEPT ![t].pc = "notify", ![t].idx = 1]
    /\ UNCHANGED <<now, active_alerts, alert_callbacks, price_history,
                   volume_history, alert_cooldown, alerts, delivered,
                   total_events_processed, feed, monitor, config, manager, limiter, clock>>

\* a rule that marks its cooldown in a finally clause, also when the sink raises
PersistFailMarksCooldown(t) ==
    /\ task[t].pc = "persist"
    /\ db' = Append(db, DbCall(task[t].alert, FALSE))
    /\ alert_cooldown' =
         [k \in CooldownKeys |->
            IF \/ (task[t].rule = "depeg" /\ k = DepegKey(task[t].event.symbol))
               \/ (task[t].rule = "volume_spike"
                      /\ k = VolumeSpikeKey(task[t].event.pair))
            THEN now ELSE alert_cooldown[k]]
    /\ Finish(t)
    /\ UNCHANGED <<now, active_alerts, alert_callbacks, price_history,
                   volume_history, alerts, delivered, feed, monitor, config,
                   manager, limiter, clock>>

\* _emit_alert, line 240, insert_alert raises: nothing in _emit_alert or in the
\* rule catches it, process_event's except clause (line 54) does
PersistFail(t) ==
    /\ task[t].pc = "persist"
    /\ db' = Append(db, DbCall(task[t].alert, FALSE))
    /\ Finish(t)
    /\ UNCHANGED <<now, active_alerts, alert_callbacks, price_history,
                   volume_history, alert_cooldown, alerts, delivered, feed, monitor, config, manager, limiter, clock>>

Invoke(t) == [delivered EXCEPT ![task[t].idx] = Append(@, task[t].alert)]

InLoop(t, kind) ==
    /\ task[t].pc = "notify"
    /\ task[t].idx <= Len(alert_callbacks)
    /\ alert_callbacks[task[t].idx] = kind

\* lines 243-245, the callback returns without suspending
NotifyOk(t) ==
    /\ InLoop(t, "ok")
    /\ delivered' = Invoke(t)
    /\ task' = [task EXCEPT ![t].idx = @ + 1]
    /\ UNCHANGED <<now, active_alerts, alert_callbacks, price_history,
                   volume_history, alert_cooldown, alerts, db,
                   total_events_processed, feed, monitor, config, manager, limiter, clock>>

\* a raising callback left uncaught: process_event's handler ends the event
AfterCallbackErrorAborts(t) == [task EXCEPT ![t] = IdleTask]

\* the task after a callback raised: lines 246-247 log and go on
AfterCallbackError(t) == [task EXCEPT ![t].idx = @ + 1]

\* lines 243-247, the callback raises
NotifyFail(t) ==
    /\ InLoop(t, "fail")
    /\ delivered' = Invoke(t)
    /\ task' = AfterCallbackError(t)
    /\ UNCHANGED <<now, active_alerts, alert_callbacks, price_history,
                   volume_history, alert_cooldown, alerts, db,
                   total_events_processed, feed, monitor, config, manager, limiter, clock>>

\* lines 243-245, the callback suspends on its own I/O
NotifySlow(t) ==
    /\ InLoop(t, "slow")
    /\ delivered' = Invoke(t)
    /\ task' = [task EXCEPT ![t].pc = "cb_wait"]
    /\ UNCHANGED <<now, active_alerts, alert_callbacks, price_history,
                   volume_history, alert_cooldown, alerts, db,
                   total_events_processed, feed, monitor, config, manager, limiter, clock>>

\* the suspended callback returns and the loop goes on
Resume(t) ==
    /\ task[t].pc = "cb_wait"
    /\ CanRun(t)
    /\ task' = [task EXCEPT ![t].pc = "notify", ![t].idx = @ + 1]
    /\ UNCHANGED <<now, active_alerts, alert_callbacks, price_history,
                   volume_history, alert_cooldown, alerts, db, delivered,
                   total_events_processed, feed, monitor, config, manager, limiter, clock>>

\* the loop is over, line 249, _emit_alert returns
NotifyEnd(t) ==
    /\ task[t].pc = "notify"
    /\ task[t].idx > Len(alert_callbacks)
    /\ task' = [task EXCEPT ![t].pc = "post"]
    /\ UNCHANGED <<now, active_alerts, alert_callbacks, price_history,
                   volume_history, alert_cooldown, alerts, db, delivered,
                   total_events_processed, feed, monitor, config, manager, limiter, clock>>

\* line 183, then lines 113-132
PostDepeg(t) ==
    /\ task[t].pc = "post"
    /\ task[t].rule = "depeg"
    /\ alert_cooldown' =
         [alert_cooldown EXCEPT ![DepegKey(task[t].event.symbol)] = now]
    /\ PriceChangeRule(t, task[t].event)
    /\ UNCHANGED <<now, active_alerts, alert_callbacks, price_history,
                   volume_history, db, delivered, feed, monitor, config, manager, limiter, clock>>

\* line 219
PostVolumeSpike(t) ==
    /\ task[t].pc = "post"
    /\ task[t].rule = "volume_spike"
    /\ alert_cooldown' =
         [alert_cooldown EXCEPT ![VolumeSpikeKey(task[t].event.pair)] = now]
    /\ Finish(t)
    /\ UNCHANGED <<now, active_alerts, alert_callbacks, price_history,
                   volume_history, alerts, db, delivered, feed, monitor, config, manager, limiter, clock>>

\* the price-change rule run again when its emission returns
PostPlainReruns(t) ==
    /\ task[t].pc = "post"
    /\ task[t].rule \in {"liquidity", "price_change"}
    /\ IF task[t].rule = "price_change"
       THEN PriceChangeRule(t, task[t].event)
       ELSE Finish(t) /\ UNCHANGED alerts
    /\ UNCHANGED <<now, active_alerts, alert_callbacks, price_history,
                   volume_history, alert_cooldown, db, delivered, feed, monitor, config, manager, limiter, clock>>

\* lines 97 and 132: nothing follows the emission
PostPlain(t) ==
    /\ task[t].pc = "post"
    /\ task[t].rule \in {"liquidity", "price_change"}
    /\ Finish(t)
    /\ UNCHANGED <<now, active_alerts, alert_callbacks, price_history,
                   volume_history, alert_cooldown, alerts, db, delivered, feed, monitor, config, manager, limiter, clock>>

\* _emit_alert, lines 234-249
EmitSteps(t) ==
    \/ EmitStore(t)
    \/ PersistOk(t)
    \/ PersistFail(t)
    \/ NotifyOk(t)
    \/ NotifyEnd(t)

\* a callback that raises or suspends
HardCallbacks(t) ==
    \/ NotifyFail(t)
    \/ NotifySlow(t)
    \/ Resume(t)

\* ------------------------------------------------------------ resolution
\* get_active_alerts, lines 265-267: the alerts of the active map
GetActiveAlerts == active_alerts

Severities == {"critical", "high", "medium", "low"}

\* the severities counted over every alert ever raised
GetAlertStatsOfAll ==
    [k \in Severities \cup {"total_active"} |->
        IF k = "total_active" THEN Cardinality(active_alerts)
        ELSE Cardinality({a \in 1..Len(alerts) : alerts[a].severity = k})]

\* get_alert_stats, lines 269-282
GetAlertStats ==
    [k \in Severities \cup {"total_active"} |->
        IF k = "total_active" THEN Cardinality(active_alerts)
        ELSE Cardinality({a \in active_alerts : alerts[a].severity = k})]

\* an id taken for active because an alert of that id was once created
IsKnownAlert(id) == id \in 1..Len(alerts)

\* resolve_alert, line 253
IsActive(id) == id \in active_alerts

\* Alert.resolve(), as test_alert_resolution uses it
Resolved(alert) == [alert EXCEPT !.resolved = TRUE, !.resolved_at = now]

\* resolve_alert, lines 251-263; it has no await, so it runs in one piece;
\* ok tells whether insert_alert (line 258) returns or raises, and when it
\* raises line 261 is not reached
ResolveAlert(id, ok) ==
    /\ Quiescent
    /\ feed' = [feed EXCEPT !.resolves = @ + 1,
                            !.absent = @ + (IF IsActive(id) THEN 0 ELSE 1)]
    /\ IF IsActive(id)
       THEN /\ alerts' = [alerts EXCEPT ![id] = Resolved(@)]
            /\ db' = Append(db, [id |-> id, resolved |-> TRUE, ok |-> ok])
            /\ active_alerts' = IF ok THEN active_alerts \ {id} ELSE active_alerts
       ELSE UNCHANGED <<alerts, db, active_alerts>>
    /\ UNCHANGED <<now, alert_callbacks, price_history, volume_history,
                   alert_cooldown, delivered, task, total_events_processed,
                   monitor, config, manager, limiter, clock>>

\* db_manager.get_recent_alerts(hours=720): the ids the sink holds a record of
GetRecentAlerts == {db[n].id : n \in {m \in 1..Len(db) : db[m].ok}}

\* the dashboard's resolve-alert route, lines 129-166 of app.py: it looks the
\* id up in the sink, writes a resolved copy of the record to the sink and
\* tells its clients; the alert manager is not involved
DashboardResolve(id, ok) ==
    /\ feed' = [feed EXCEPT !.resolves = @ + 1]
    /\ db' = IF id \in GetRecentAlerts
             THEN Append(db, [id |-> id, resolved |-> TRUE, ok |-> ok])
             ELSE db
    /\ UNCHANGED <<now, active_alerts, alert_callbacks, price_history,
                   volume_history, alert_cooldown, alerts, delivered, task,
                   total_events_processed, monitor, config, manager, limiter, clock>>

\* ------------------------------------------------------------- lifecycle
engine == <<now, active_alerts, alert_callbacks, price_history, volume_history,
            alert_cooldown, alerts, db, delivered, task, total_events_processed,
            feed, config, manager, limiter, clock>>

\* start(), lines 86-106: the flag is set and the three tasks are created;
\* start() then waits in gather (line 118)
Start ==
    /\ monitor.start = "new"
    /\ ~monitor.running
    /\ monitor' = [monitor EXCEPT !.running = TRUE, !.start = "gather",
                                  !.sim = "run", !.stats = "check",
                                  !.cleanup = "check"]
    /\ UNCHANGED engine

\* a stop() that halts the simulator but leaves the running flag set
StopSimulationOnly ==
    /\ monitor.start = "gather"
    /\ ~monitor.stopped
    /\ monitor' = [monitor EXCEPT !.stopped = TRUE, !.sim = "done"]
    /\ UNCHANGED engine

\* stop(), lines 126-130, called from the signal handler (lines 81-84),
\* which Python runs between two bytecodes of whatever the loop is running:
\* the flag is cleared and the simulator is told to stop
Stop ==
    /\ monitor.start = "gather"
    /\ ~monitor.stopped
    /\ monitor' = [monitor EXCEPT
                     !.running = FALSE, !.stopped = TRUE,
                     !.emitting = {task[t].alert : t \in {u \in Tasks : task[u].pc # "idle"}}]
    /\ UNCHANGED engine

\* _stats_updater, line 134: the loop test
StatsCheck ==
    /\ monitor.stats = "check"
    /\ monitor' = [monitor EXCEPT !.stats = IF monitor.running THEN "sleep" ELSE "done"]
    /\ UNCHANGED engine

\* lines 136-139: the sleep is over, the flag is looked at again; the loop
\* gets the thread when every other coroutine is at an await
StatsWake ==
    /\ monitor.stats = "sleep"
    /\ Quiescent /\ monitor.cleanup # "build"
    /\ monitor.running => monitor.stats_writes < MaxLoopRuns
    /\ monitor' = [monitor EXCEPT !.stats = IF monitor.running THEN "build" ELSE "done"]
    /\ UNCHANGED engine

\* a try that encloses the while: what the sink raises ends the loop
StatsInsertUncaught(ok) ==
    /\ monitor.stats = "build"
    /\ monitor' = [monitor EXCEPT !.stats = IF ok THEN "check" ELSE "done",
                                  !.stats_writes = @ + 1,
                                  !.stats_errors = @ + (IF ok THEN 0 ELSE 1),
                                  !.late = @ \/ monitor.stopped]
    /\ UNCHANGED engine

\* lines 141-169: the snapshot is built and handed to insert_monitoring_stats,
\* which returns (ok) or raises; the except clause inside the while (lines
\* 168-169) logs the error and the loop is back at its test
StatsInsert(ok) ==
    /\ monitor.stats = "build"
    /\ monitor' = [monitor EXCEPT !.stats = "check", !.stats_writes = @ + 1,
                                  !.stats_errors = @ + (IF ok THEN 0 ELSE 1),
                                  !.late = @ \/ monitor.stopped]
    /\ UNCHANGED engine

\* _cleanup_task, line 173: the loop test
CleanupCheck ==
    /\ monitor.cleanup = "check"
    /\ monitor' = [monitor EXCEPT !.cleanup = IF monitor.running THEN "sleep" ELSE "done"]
    /\ UNCHANGED engine

\* lines 176-179: the sleep is over, the flag is looked at again
CleanupWake ==
    /\ monitor.cleanup = "sleep"
    /\ Quiescent /\ monitor.stats # "build"
    /\ monitor.running => monitor.cleanup_runs < MaxLoopRuns
    /\ monitor' = [monitor EXCEPT !.cleanup = IF monitor.running THEN "build" ELSE "done"]
    /\ UNCHANGED engine

\* lines 181-188: cleanup_old_data is called and returns (ok) or raises; the
\* except clause inside the while (lines 187-188) logs the error and the loop
\* is back at its test
CleanupRun(ok) ==
    /\ monitor.cleanup = "build"
    /\ monitor' = [monitor EXCEPT !.cleanup = "check", !.cleanup_runs = @ + 1,
                                  !.cleanup_errors = @ + (IF ok THEN 0 ELSE 1),
                                  !.late = @ \/ monitor.stopped]
    /\ UNCHANGED engine

\* no maintenance loop is between its wake-up and its call of the sink
LoopsAtAwait == monitor.stats # "build" /\ monitor.cleanup # "build"

\* the simulator's task (line 103) hands an event to _process_event
SimulatedEvent(ev) ==
    /\ monitor.sim = "run"
    /\ LoopsAtAwait
    /\ monitor.running
    /\ ProcessLiquidityEvent("p1", ev)

\* the simulator's task ends once it was told to stop and its handler is back
SimulationEnds ==
    /\ monitor.sim = "run"
    /\ ~monitor.running
    /\ task["p1"].pc = "idle"
    /\ monitor' = [monitor EXCEPT !.sim = "done"]
    /\ UNCHANGED engine

\* line 118: gather returns when the three tasks are over
GatherReturns ==
    /\ monitor.start = "gather"
    /\ monitor.sim = "done" /\ monitor.stats = "done" /\ monitor.cleanup = "done"
    /\ monitor' = [monitor EXCEPT !.start = "finally"]
    /\ UNCHANGED engine

\* lines 123-124 and _cleanup, lines 190-196; start() returns
Cleanup ==
    /\ monitor.start = "finally"
    /\ monitor' = [monitor EXCEPT !.start = "returned", !.cleanups = @ + 1]
    /\ UNCHANGED engine

\* the state after DEXMonitor.__init__: _handle_alert is the one callback; it
\* catches what it calls and none of its awaits suspends
InitMonitor ==
    /\ now = 0
    /\ active_alerts = {}
    /\ alert_callbacks = <<"ok">>
    /\ price_history = [s \in Symbols |-> <<>>]
    /\ volume_history = [p \in Pairs |-> <<>>]
    /\ alert_cooldown = [k \in CooldownKeys |-> NoTime]
    /\ alerts = <<>>
    /\ db = <<>>
    /\ delivered = << <<>> >>
    /\ task = [t \in Tasks |-> IdleTask]
    /\ total_events_processed = 0
    /\ feed = NoFeed
    /\ monitor = NewMonitor
    /\ config = NoConfig
    /\ manager = BuiltManager
    /\ limiter = NewRateLimiter(1, 1)
    /\ clock = 0

\* ------------------------------------------------------- specifications
Produced == feed.swaps + feed.prices + feed.liquidity

\* add_alert_callback is called while the monitor is being set up
Setup == Produced = 0 /\ now = 0

\* Spec: two producers, consumers of every kind, a sink that may fail.
PriceInputs == {PriceData(now, "USDC", p, 0) : p \in {88, 98}}
LiquidityInputs ==
    {LiquidityEvent(now, p, k, d) :
        p \in Pairs, k \in LiquidityKinds, d \in LiquidityDeltas}

Register == \E k \in CallbackKinds : Setup /\ AddAlertCallback(k)

PriceFeed ==
    \E t \in Tasks, ev \in PriceInputs :
        Produced < MaxEvents /\ ProcessPriceData(t, ev)

LiquidityFeed ==
    \E t \in Tasks, ev \in LiquidityInputs :
        Produced < MaxEvents /\ ProcessLiquidityEvent(t, ev)

Next ==
    \/ Tick
    \/ Register
    \/ PriceFeed
    \/ LiquidityFeed
    \/ \E t \in Tasks : EmitSteps(t) \/ HardCallbacks(t) \/ PostDepeg(t) \/ PostPlain(t)

Spec == Init /\ [][Next]_vars

\* SpecDepeg: one producer feeding price updates of every symbol, the clock
\* running past the cooldown.
DepegInputs == {PriceData(now, s, p, 0) : s \in Symbols, p \in PricesCents}

DepegFeed ==
    \E ev \in DepegInputs :
        feed.prices < MaxPriceEvents /\ ProcessPriceData("p1", ev)

NextDepeg ==
    \/ Tick
    \/ DepegFeed
    \/ EmitSteps("p1")
    \/ PostDepeg("p1")

SpecDepeg == InitMonitor /\ [][NextDepeg]_vars

\* SpecWindows: one producer filling both windows past their capacity; each
\* source stamps its events with its own count; the swaps of the pool have
\* the volume BaseVolume but for at most one of SpikeVolume.
SwapInputs ==
    {SwapEvent(feed.swaps, Pool1, a, q) :
        a \in {BaseVolume} \cup (IF feed.spikes = 0 THEN {SpikeVolume} ELSE {}),
        q \in {0, 1}}

SwapFeed ==
    \E ev \in SwapInputs :
        feed.swaps < MaxSwaps /\ ProcessSwapEvent("p1", ev)

QuietPriceFeed ==
    /\ feed.prices < MaxPricePushes
    /\ ProcessPriceData("p1", PriceData(feed.prices, "USDC", 98, 0))

NextWindows ==
    \/ SwapFeed
    \/ QuietPriceFeed
    \/ EmitSteps("p1")
    \/ PostVolumeSpike("p1")

SpecWindows == InitMonitor /\ [][NextWindows]_vars

\* SpecAlerts: one producer whose price updates carry a 24h change and whose
\* liquidity events remove liquidity, a sink that may fail.
ChangesPct == {0, 15, -25}
RuleInputs ==
    {PriceData(now, "USDC", p, c) : p \in {88, 98}, c \in ChangesPct}
        \cup {PriceData(now, "USDT", 88, 0), PriceData(now, "WETH", 98, 15)}
        \cup {LiquidityEvent(now, Pool1, "liquidity_remove", -1500000)}

RuleFeed ==
    \E ev \in RuleInputs :
        /\ Produced < MaxEvents
        /\ IF ev.type = "price" THEN ProcessPriceData("p1", ev)
           ELSE ProcessLiquidityEvent("p1", ev)

NextAlerts ==
    \/ RuleFeed
    \/ EmitSteps("p1")
    \/ PostDepeg("p1")
    \/ PostPlain("p1")

SpecAlerts == InitMonitor /\ [][NextAlerts]_vars

\* SpecResolve: one producer raising alerts of two severities, an operator
\* resolving alerts through the alert manager and through the dashboard, a
\* sink that may fail.
ResolveInputs ==
    {PriceData(now, "WETH", 98, 15),
     LiquidityEvent(now, Pool1, "liquidity_remove", -1500000)}
ResolveIds == {1, 2, 3}

AlertFeed ==
    \E ev \in ResolveInputs :
        /\ Produced < MaxEvents
        /\ IF ev.type = "price" THEN ProcessPriceData("p1", ev)
           ELSE ProcessLiquidityEvent("p1", ev)

OperatorResolve ==
    \E id \in ResolveIds, ok \in BOOLEAN :
        feed.resolves < MaxResolves /\ ResolveAlert(id, ok)

DashboardRequest ==
    \E id \in ResolveIds, ok \in BOOLEAN :
        feed.resolves < MaxResolves /\ DashboardResolve(id, ok)

NextResolve ==
    \/ Tick
    \/ AlertFeed
    \/ OperatorResolve
    \/ DashboardRequest
    \/ EmitSteps("p1")
    \/ PostPlain("p1")

SpecResolve == InitMonitor /\ [][NextResolve]_vars

\* SpecLifecycle: the monitor is started and stopped by a signal at any
\* point; the simulator feeds liquidity removals to a callback that suspends
\* and one that does not, the two maintenance loops run, the sink may fail.
InitLifecycle ==
    /\ now = 0
    /\ active_alerts = {}
    /\ alert_callbacks = <<"slow", "ok">>
    /\ price_history = [s \in Symbols |-> <<>>]
    /\ volume_history = [p \in Pairs |-> <<>>]
    /\ alert_cooldown = [k \in CooldownKeys |-> NoTime]
    /\ alerts = <<>>
    /\ db = <<>>
    /\ delivered = << <<>>, <<>> >>
    /\ task = [t \in Tasks |-> IdleTask]
    /\ total_events_processed = 0
    /\ feed = NoFeed
    /\ monitor = NewMonitor
    /\ config = NoConfig
    /\ manager = BuiltManager
    /\ limiter = NewRateLimiter(1, 1)
    /\ clock = 0

SimulatorFeed ==
    /\ Produced < MaxEvents
    /\ SimulatedEvent(LiquidityEvent(now, Pool1, "liquidity_remove", -1500000))

Emitting ==
    /\ LoopsAtAwait
    /\ \/ EmitSteps("p1")
       \/ NotifySlow("p1")
       \/ Resume("p1")
       \/ PostPlain("p1")

MaintenanceLoops ==
    \/ StatsCheck
    \/ StatsWake
    \/ \E ok \in BOOLEAN : StatsInsert(ok)
    \/ CleanupCheck
    \/ CleanupWake
    \/ \E ok \in BOOLEAN : CleanupRun(ok)

Returning ==
    \/ SimulationEnds
    \/ GatherReturns
    \/ Cleanup

NextLifecycle ==
    \/ Start
    \/ Stop
    \/ SimulatorFeed
    \/ Emitting
    \/ MaintenanceLoops
    \/ Returning

SpecLifecycle == InitLifecycle /\ [][NextLifecycle]_vars

\* the event source stops, every sleep elapses, every callback returns
Fairness ==
    /\ WF_vars(Emitting)
    /\ WF_vars(MaintenanceLoops)
    /\ WF_vars(Returning)

SpecLifecycleFair == SpecLifecycle /\ Fairness

\* SpecConfig: the process starts on a configuration file that holds any
\* part of the alert keys; the alert manager is built from it, then one
\* producer feeds price updates while the clock runs.
ConfigFiles ==
    {c \in [ConfigKeys -> {NoValue, 5, 10, 15}] :
        /\ c["alerts.depeg_threshold"] \in {NoValue, 5, 15}
        /\ c["alerts.price_change_threshold"] \in {NoValue, 10, 15}
        /\ c["alerts.volume_spike_threshold"] \in {NoValue, 5}
        /\ c["alerts.cooldown_minutes"] \in {NoValue, 5, 10}}

InitConfig ==
    /\ now = 0
    /\ active_alerts = {}
    /\ alert_callbacks = <<"ok">>
    /\ price_history = [s \in Symbols |-> <<>>]
    /\ volume_history = [p \in Pairs |-> <<>>]
    /\ alert_cooldown = [k \in CooldownKeys |-> NoTime]
    /\ alerts = <<>>
    /\ db = <<>>
    /\ delivered = << <<>> >>
    /\ task = [t \in Tasks |-> IdleTask]
    /\ total_events_processed = 0
    /\ feed = NoFeed
    /\ monitor = NewMonitor
    /\ config \in ConfigFiles
    /\ manager = NoManager
    /\ limiter = NewRateLimiter(1, 1)
    /\ clock = 0

\* AlertManager(self.db_manager) in DEXMonitor.__init__: lines 32-39 of
\* alert_manager.py set the thresholds and the cooldown duration
Construct ==
    /\ ~manager.built
    /\ manager' = BuiltManager
    /\ UNCHANGED <<now, active_alerts, alert_callbacks, price_history,
                   volume_history, alert_cooldown, alerts, db, delivered, task,
                   total_events_processed, feed, monitor, config, limiter, clock>>

ConfigInputs == {PriceData(now, "USDC", p, c) : p \in {88, 98}, c \in {0, 15}}

ConfigFeed ==
    \E ev \in ConfigInputs :
        /\ manager.built
        /\ feed.prices < MaxEvents
        /\ ProcessPriceData("p1", ev)

NextConfig ==
    \/ Construct
    \/ Tick
    \/ ConfigFeed
    \/ EmitSteps("p1")
    \/ PostDepeg("p1")
    \/ PostPlain("p1")

SpecConfig == InitConfig /\ [][NextConfig]_vars

\* SpecSeverity: one producer feeding a pool nine quiet swaps and then swaps
\* of one, three, five and six times their volume, and USDC price updates on
\* and between the rungs of the severity ladder, the price updates first; the
\* sink may fail.
SeverityVolumes ==
    IF feed.swaps < MinVolumeSamples - 1 THEN {BaseVolume}
    ELSE {BaseVolume, SpikeVolume, 5 * BaseVolume, 6 * BaseVolume}

SeveritySwapFeed ==
    \E a \in SeverityVolumes :
        /\ feed.swaps < MinVolumeSamples + MaxEvents
        /\ ProcessSwapEvent("p1", SwapEvent(feed.swaps, Pool1, a, 1))

SeverityPrices == {70, 80, 88, 90, 98}

SeverityPriceFeed ==
    \E p \in SeverityPrices :
        /\ feed.prices < MaxEvents
        /\ feed.swaps = 0
        /\ ProcessPriceData("p1", PriceData(now, "USDC", p, 0))

NextSeverity ==
    \/ SeveritySwapFeed
    \/ SeverityPriceFeed
    \/ EmitSteps("p1")
    \/ PostDepeg("p1")
    \/ PostVolumeSpike("p1")

SpecSeverity == InitMonitor /\ [][NextSeverity]_vars

\* SpecVolume: one producer feeding one pool swaps past the capacity of its
\* window, of the volume BaseVolume but for a few of SpikeVolume anywhere in
\* the stream, the first nine swaps included; the sink may fail.
VolumeInputs ==
    {SwapEvent(feed.swaps, Pool1, a, 1) :
        a \in {BaseVolume} \cup (IF feed.spikes < MaxEvents THEN {SpikeVolume} ELSE {})}

VolumeFeed ==
    \E ev \in VolumeInputs :
        feed.swaps < MaxSwaps /\ ProcessSwapEvent("p1", ev)

NextVolume ==
    \/ VolumeFeed
    \/ EmitSteps("p1")
    \/ PostVolumeSpike("p1")

SpecVolume == InitMonitor /\ [][NextVolume]_vars

\* SpecCooldown: one producer feeding USDC price updates and, after nine
\* quiet swaps in the first minute, swaps of BaseVolume or SpikeVolume, while
\* the clock runs to the end of the cooldown; the sink may fail.
CooldownSwapFeed ==
    \E a \in IF feed.swaps < MinVolumeSamples - 1 THEN {BaseVolume}
              ELSE {BaseVolume, SpikeVolume} :
        /\ feed.swaps < MinVolumeSamples + MaxEvents
        /\ ProcessSwapEvent("p1", SwapEvent(now, Pool1, a, 1))

CooldownPriceFeed ==
    \E p \in {88, 98} :
        /\ feed.swaps >= MinVolumeSamples - 1
        /\ feed.prices < MaxPriceEvents
        /\ ProcessPriceData("p1", PriceData(now, "USDC", p, 0))

CooldownTick == feed.swaps >= MinVolumeSamples - 1 /\ Tick

NextCooldown ==
    \/ CooldownTick
    \/ CooldownSwapFeed
    \/ CooldownPriceFeed
    \/ EmitSteps("p1")
    \/ PostDepeg("p1")
    \/ PostVolumeSpike("p1")

SpecCooldown == InitMonitor /\ [][NextCooldown]_vars

\* ---------------------------------------------------------------- restart
\* a second call of start(), lines 86-106, made by another coroutine while the
\* first one is in gather or after it: with the flag set it returns at line
\* 90, otherwise it sets the flag and creates its own tasks
Restart ==
    /\ monitor.start # "new"
    /\ monitor.restart.start = "none"
    /\ Quiescent /\ LoopsAtAwait
    /\ monitor' = IF monitor.running
                  THEN [monitor EXCEPT !.restart.start = "returned"]
                  ELSE [monitor EXCEPT !.running = TRUE,
                                       !.restart = [start |-> "gather",
                                                    stats |-> "check",
                                                    cleanup |-> "check"]]
    /\ UNCHANGED engine

\* _stats_updater, lines 132-169, as the task of the second start()
RestartedStats ==
    /\ monitor.cleanup # "build" /\ monitor.stats # "build"
    /\ monitor.restart.cleanup # "build"
    /\ \/ /\ monitor.restart.stats = "check"
          /\ monitor' = [monitor EXCEPT !.restart.stats =
                            IF monitor.running THEN "sleep" ELSE "done"]
       \/ /\ monitor.restart.stats = "sleep"
          /\ Quiescent
          /\ monitor.running => monitor.stats_writes < MaxLoopRuns
          /\ monitor' = [monitor EXCEPT !.restart.stats =
                            IF monitor.running THEN "build" ELSE "done"]
    /\ UNCHANGED engine

RestartedStatsInsert(ok) ==
    /\ monitor.restart.stats = "build"
    /\ monitor' = [monitor EXCEPT !.restart.stats = "check",
                                  !.stats_writes = @ + 1,
                                  !.stats_errors = @ + (IF ok THEN 0 ELSE 1)]
    /\ UNCHANGED engine

\* _cleanup_task, lines 171-188, as the task of the second start()
RestartedCleanup ==
    /\ monitor.cleanup # "build" /\ monitor.stats # "build"
    /\ monitor.restart.stats # "build"
    /\ \/ /\ monitor.restart.cleanup = "check"
          /\ monitor' = [monitor EXCEPT !.restart.cleanup =
                            IF monitor.running THEN "sleep" ELSE "done"]
       \/ /\ monitor.restart.cleanup = "sleep"
          /\ Quiescent
          /\ monitor.running => monitor.cleanup_runs < MaxLoopRuns
          /\ monitor' = [monitor EXCEPT !.restart.cleanup =
                            IF monitor.running THEN "build" ELSE "done"]
    /\ UNCHANGED engine

RestartedCleanupRun(ok) ==
    /\ monitor.restart.cleanup = "build"
    /\ monitor' = [monitor EXCEPT !.restart.cleanup = "check",
                                  !.cleanup_runs = @ + 1,
                                  !.cleanup_errors = @ + (IF ok THEN 0 ELSE 1)]
    /\ UNCHANGED engine

\* a loop task that was created and has not returned
Alive(pc) == pc \notin {"none", "done"}

\* SpecRestart: start() is called, stop() arrives at any point, and start()
\* is called a second time at any point; the loops of both calls run.
RestartedLoops ==
    \/ RestartedStats
    \/ \E ok \in BOOLEAN : RestartedStatsInsert(ok)
    \/ RestartedCleanup
    \/ \E ok \in BOOLEAN : RestartedCleanupRun(ok)

NextRestart ==
    \/ Start
    \/ Stop
    \/ Restart
    \/ (monitor.restart.stats # "build" /\ monitor.restart.cleanup # "build"
          /\ MaintenanceLoops)
    \/ RestartedLoops
    \/ Returning

SpecRestart == InitMonitor /\ [][NextRestart]_vars

\* ------------------------------------------------------------ rate limiter
\* the variables of the monitor, which the rate limiter does not touch
dex == <<now, active_alerts, alert_callbacks, price_history, volume_history,
         alert_cooldown, alerts, db, delivered, task, total_events_processed,
         feed, monitor, config, manager>>

MinOf(calls) == CHOOSE c \in {calls[n] : n \in 1..Len(calls)} :
                    \A n \in 1..Len(calls) : c <= calls[n]
Max(x, y) == IF x > y THEN x ELSE y

\* line 117: the calls younger than the time window, seen at time t
RecentCalls(t) ==
    LET Young(c) == t - c < limiter.time_window
    IN SelectSeq(limiter.calls, Young)

\* a limit that lets one call more through
AllowedUpToLimit(t) == Len(RecentCalls(t)) <= limiter.max_calls

\* what can_make_call would return if it were called at time t
Allowed(t) == Len(RecentCalls(t)) < limiter.max_calls

\* can_make_call, lines 112-119: the old calls are dropped from self.calls
CanMakeCall ==
    /\ limiter' = [limiter EXCEPT !.calls = RecentCalls(clock)]
    /\ UNCHANGED <<dex, clock>>

\* make_call, lines 121-126: can_make_call, then the call is recorded
MakeCall ==
    /\ limiter' = [limiter EXCEPT
                      !.calls = IF Allowed(clock)
                                THEN Append(RecentCalls(clock), clock)
                                ELSE RecentCalls(clock),
                      !.accepted = IF Allowed(clock) THEN Append(@, clock) ELSE @]
    /\ UNCHANGED <<dex, clock>>

\* get_wait_time, lines 128-136: nothing is dropped, max_calls is not read
GetWaitTime ==
    IF limiter.calls = <<>> THEN 0
    ELSE Max(0, limiter.time_window - (clock - MinOf(limiter.calls)))

\* a second of time.time()
ClockTick ==
    /\ clock < MaxClock
    /\ clock' = clock + 1
    /\ UNCHANGED <<dex, limiter>>

\* SpecRateLimiter: a limiter of any small rate and window, called at any
\* moment of a few seconds.
InitRateLimiter ==
    /\ now = 0
    /\ active_alerts = {}
    /\ alert_callbacks = <<"ok">>
    /\ price_history = [s \in Symbols |-> <<>>]
    /\ volume_history = [p \in Pairs |-> <<>>]
    /\ alert_cooldown = [k \in CooldownKeys |-> NoTime]
    /\ alerts = <<>>
    /\ db = <<>>
    /\ delivered = << <<>> >>
    /\ task = [t \in Tasks |-> IdleTask]
    /\ total_events_processed = 0
    /\ feed = NoFeed
    /\ monitor = NewMonitor
    /\ config = NoConfig
    /\ manager = BuiltManager
    /\ \E m \in 1..MaxCalls, w \in 1..MaxWindow : limiter = NewRateLimiter(m, w)
    /\ clock = 0

NextRateLimiter ==
    \/ ClockTick
    \/ CanMakeCall
    \/ MakeCall

SpecRateLimiter == InitRateLimiter /\ [][NextRateLimiter]_vars

\* ---------------------------------------------------------------- claims
AlertIds == 1..Len(alerts)
Last(w) == w[Len(w)]
SeqCount(w, x) == Cardinality({n \in 1..Len(w) : w[n] = x})
DeliveredTo(i, a) == SeqCount(delivered[i], a) > 0
InsertCalls(a) == Cardinality({n \in 1..Len(db) : db[n].id = a})
PersistedOk(a) == \E n \in 1..Len(db) : db[n].id = a /\ db[n].ok
\* the alert's emission is over: no task is inside _emit_alert with it
EmissionOver(a) == \A t \in Tasks : task[t].alert # a
SameKey(a, b) ==
    /\ alerts[a].event_type = alerts[b].event_type
    /\ alerts[a].subject = alerts[b].subject
Triggering(sample) == DeviationPct(sample.price) > DepegThresholdPct
DepegAlertsOf(s) ==
    {a \in AlertIds : alerts[a].event_type = "depeg_alert" /\ alerts[a].subject = s}

\* C1: updates of one symbol processed one after the other, stated for
\* USDC, the symbol the rule builds alerts for: no two depeg alerts of the
\* symbol lie less than the cooldown apart (two updates above the threshold
\* inside one window give one alert), and every update above the threshold
\* either produced a depeg alert or came less than the cooldown after one
\* (the first update after the window gives the second alert).
C1_DepegOncePerWindow ==
    \A s \in {"USDC"} :
        /\ \A a, b \in DepegAlertsOf(s) :
              a # b => Abs(alerts[a].timestamp - alerts[b].timestamp) >= CooldownMinutes
        /\ \A n \in 1..Len(price_history[s]) :
              Triggering(price_history[s][n]) =>
                \E a \in DepegAlertsOf(s) :
                    /\ alerts[a].timestamp <= price_history[s][n].timestamp
                    /\ price_history[s][n].timestamp - alerts[a].timestamp
                         < CooldownMinutes

\* C2: with producers interleaving at a suspended callback, two alerts of one
\* cooldown key (depeg of a symbol, volume spike of a pool) that both reached
\* the persistence sink are never less than the cooldown apart.
C2_OneAlertPerKeyPerWindow ==
    \A a, b \in AlertIds :
        (/\ a # b
         /\ alerts[a].event_type \in {"depeg_alert", "volume_spike"}
         /\ SameKey(a, b)
         /\ PersistedOk(a) /\ PersistedOk(b))
        => Abs(alerts[a].timestamp - alerts[b].timestamp) >= CooldownMinutes

\* C3: once an alert has passed the persistence sink, no callback that does
\* not raise is skipped: such a callback has been invoked with the alert, or
\* the emission is still in the loop at or before it; in particular a raising
\* callback ends neither the loop nor process_event.
C3_CallbackFailureIsolated ==
    \A a \in AlertIds :
        PersistedOk(a) =>
            \A i \in 1..Len(alert_callbacks) :
                alert_callbacks[i] # "fail" =>
                    \/ DeliveredTo(i, a)
                    \/ \E t \in Tasks :
                          /\ task[t].alert = a
                          /\ \/ task[t].pc = "notify" /\ task[t].idx <= i
                             \/ task[t].pc = "cb_wait" /\ task[t].idx < i

\* C3 witness: a raising callback is registered before a sound one, and the
\* emission is over with the sound one invoked.
C3_Witness ==
    /\ alert_callbacks = <<"fail", "ok">>
    /\ \E t \in Tasks :
          /\ task[t].pc = "post"
          /\ DeliveredTo(1, task[t].alert)
          /\ DeliveredTo(2, task[t].alert)

\* C4: an alert whose emission is over was delivered to every registered
\* callback, also when insert_alert raised for it.
C4_SinkFailureIsolated ==
    \A a \in AlertIds :
        (EmissionOver(a) /\ InsertCalls(a) > 0) =>
            \A i \in 1..Len(alert_callbacks) : DeliveredTo(i, a)

\* C5: an alert whose emission is over reached the persistence sink in
\* exactly one insert and every registered callback exactly once.
C5_DeliveredExactlyOnce ==
    \A a \in AlertIds :
        EmissionOver(a) =>
            /\ InsertCalls(a) = 1
            /\ \A i \in 1..Len(alert_callbacks) : SeqCount(delivered[i], a) = 1

\* C6: while a callback of a producer's alert is suspended, the handler of
\* the event that raised the alert can complete: some step other than the
\* callback's return leaves the producer idle, free for its next event.
C6_DeliveryDoesNotBlockIngestion ==
    \A t \in Tasks :
        task[t].pc = "cb_wait" =>
            ENABLED (Next /\ task'[t].pc = "idle")

VolumeAlerts == {a \in AlertIds : alerts[a].event_type = "volume_spike"}
Min(x, y) == IF x < y THEN x ELSE y

\* C7: a volume window never holds more than 50 samples and a price window
\* never more than 100; each holds the most recent samples pushed to it,
\* oldest first, in the order they were pushed (the stamps are the source's
\* own event counts, so the sample pushed k-th carries stamp k - 1).
C7_WindowsBoundedFifo ==
    /\ \A p \in Pairs :
          LET w == volume_history[p]
          IN /\ Len(w) <= 50
             /\ Len(w) = Min(feed.swaps, 50)
             /\ \A i \in 1..Len(w) : w[i].timestamp = feed.swaps - Len(w) + i - 1
    /\ \A s \in Symbols :
          LET w == price_history[s]
          IN /\ Len(w) <= 100
             /\ s = "USDC" =>
                   /\ Len(w) = Min(feed.prices, 100)
                   /\ \A i \in 1..Len(w) :
                         w[i].timestamp = feed.prices - Len(w) + i - 1

\* C7 witness: both windows are full and have evicted.
C7_Witness ==
    /\ feed.swaps > 50 /\ Len(volume_history[Pool1]) = 50
    /\ feed.prices > 100 /\ Len(price_history["USDC"]) = 100

\* C8 as stated: ten or more swaps of one pool, all of one volume V but one
\* of 3V, give exactly one volume alert, of multiplier 3 and severity MEDIUM.
C8_OneSpikeOneAlert ==
    (feed.swaps >= 10 /\ feed.spikes = 1) =>
        /\ Cardinality(VolumeAlerts) = 1
        /\ \A a \in VolumeAlerts :
              alerts[a].value = 300 /\ alerts[a].severity = "medium"

\* C8 amended: when the 3V sample is the tenth or a later one, exactly one
\* volume alert, multiplier 3, MEDIUM; when it is one of the first nine (or
\* there is none yet), no volume alert at all.
C8_SpikeFromTenthSample ==
    /\ (feed.spikes = 1 /\ feed.spike_at >= 10) =>
          /\ Cardinality(VolumeAlerts) = 1
          /\ \A a \in VolumeAlerts :
                alerts[a].value = 300 /\ alerts[a].severity = "medium"
    /\ feed.spike_at < 10 => VolumeAlerts = {}

\* C8 witness: the spike was a late sample, its alert is out and baseline
\* swaps followed it.
C8_Witness ==
    /\ feed.spikes = 1 /\ feed.spike_at >= 10
    /\ feed.swaps >= feed.spike_at + 10
    /\ Cardinality(VolumeAlerts) = 1
    /\ task["p1"].pc = "idle"

\* a step that processes a price update of symbol s at price p
PriceStepOf(s, p) ==
    /\ feed'.prices = feed.prices + 1
    /\ Len(price_history'[s]) = Len(price_history[s]) + 1
    /\ Last(price_history'[s]).price = p
NewAlertIds == (Len(alerts) + 1)..Len(alerts')
DepegAlertRaised(severity) ==
    \E a \in NewAlertIds :
        alerts'[a].event_type = "depeg_alert" /\ alerts'[a].severity = severity
NoDepegAlertRaised ==
    \A a \in NewAlertIds : alerts'[a].event_type # "depeg_alert"

\* C9 as stated: for every stablecoin whose depeg key is not on cooldown, a
\* price of 0.88 raises a HIGH depeg alert, 0.70 a CRITICAL one, 0.98 none.
C9_DepegSeverityAllStablecoins ==
    [][\A s \in Stablecoins :
          ~IsOnCooldown(DepegKey(s)) =>
              /\ PriceStepOf(s, 88) => DepegAlertRaised("high")
              /\ PriceStepOf(s, 70) => DepegAlertRaised("critical")
              /\ PriceStepOf(s, 98) => NoDepegAlertRaised]_vars

\* C9 amended: that holds for USDC, the one symbol the rule resolves a pair
\* for; for USDT, DAI and FRAX no price raises a depeg alert.
C9_DepegSeverityUsdc ==
    [][/\ ~IsOnCooldown(DepegKey("USDC")) =>
            /\ PriceStepOf("USDC", 88) => DepegAlertRaised("high")
            /\ PriceStepOf("USDC", 70) => DepegAlertRaised("critical")
            /\ PriceStepOf("USDC", 98) => NoDepegAlertRaised
       /\ \A s \in Stablecoins \ {"USDC"}, p \in PricesCents :
            PriceStepOf(s, p) => NoDepegAlertRaised]_vars

\* C9 witness: USDC raised a HIGH and, after the cooldown, a CRITICAL alert,
\* and USDT was seen at 0.88.
C9_Witness ==
    /\ \E a, b \in DepegAlertsOf("USDC") :
          alerts[a].severity = "high" /\ alerts[b].severity = "critical"
    /\ \E n \in 1..Len(price_history["USDT"]) : price_history["USDT"][n].price = 88

\* C10: a liquidity event raises an alert exactly when it is a REMOVE whose
\* |liquidity_delta| is above 1,000,000; the alert is HIGH; no earlier alert
\* of the pool suppresses it.
C10_LiquidityRemoval ==
    [][\A t \in Tasks, ev \in LiquidityInputs :
          ProcessLiquidityEvent(t, ev) =>
              IF ev.kind = "liquidity_remove" /\ Abs(ev.delta) > 1000000
              THEN /\ Len(alerts') = Len(alerts) + 1
                   /\ Last(alerts').event_type = "liquidity_remove"
                   /\ Last(alerts').severity = "high"
                   /\ Last(alerts').subject = ev.pair.pool_address
              ELSE alerts' = alerts]_vars

\* C10 witness: two removal alerts of one pool raised at the same minute.
C10_Witness ==
    \E a, b \in AlertIds :
        /\ a # b
        /\ alerts[a].event_type = "liquidity_remove"
        /\ SameKey(a, b)
        /\ alerts[a].timestamp = alerts[b].timestamp

\* C11: a resolve_alert call whose id is not in the active map leaves the
\* active map, every alert (its resolved flag included) and the calls made
\* on the persistence sink as they were.
C11_ResolveAbsentIsNoOp ==
    [][\A id \in ResolveIds, ok \in BOOLEAN :
          (ResolveAlert(id, ok) /\ id \notin active_alerts) =>
              UNCHANGED <<active_alerts, alerts, db>>]_vars

\* a resolve_alert call found nothing while alerts existed, one of them active
C11_Witness ==
    /\ feed.absent > 0
    /\ active_alerts # {}
    /\ Len(db) > 0

\* C12: a resolve_alert call on an active id finds the alert unresolved,
\* marks it resolved with a resolved_at time, hands the resolved record to
\* the sink, takes the id out of the active map (and so out of
\* get_active_alerts) and touches no other alert.
C12_ResolveActive ==
    [][\A id \in ResolveIds, ok \in BOOLEAN :
          (ResolveAlert(id, ok) /\ id \in active_alerts) =>
              /\ ~alerts[id].resolved /\ alerts[id].resolved_at = NoTime
              /\ alerts'[id].resolved /\ alerts'[id].resolved_at # NoTime
              /\ Len(db') = Len(db) + 1
              /\ Last(db').id = id /\ Last(db').resolved
              /\ GetActiveAlerts' = active_alerts \ {id}
              /\ \A b \in AlertIds \ {id} : alerts'[b] = alerts[b]]_vars

\* C13: an alert a callback was invoked with is in the active map, was
\* handed to the persistence sink, and every callback registered earlier was
\* invoked with it before; an alert handed to the sink is in the active map.
C13_EmissionOrder ==
    /\ \A a \in AlertIds : InsertCalls(a) > 0 => a \in active_alerts
    /\ \A i \in 1..Len(alert_callbacks), a \in AlertIds :
          DeliveredTo(i, a) =>
              /\ a \in active_alerts
              /\ InsertCalls(a) > 0
              /\ \A j \in 1..(i - 1) : DeliveredTo(j, a)

\* an alert has reached the second of two callbacks
C13_Witness ==
    /\ Len(alert_callbacks) = 2
    /\ \E a \in AlertIds : DeliveredTo(2, a)

AlertsOfType(type) == {a \in AlertIds : alerts[a].event_type = type}

HasTriggeringSample(s) ==
    \E n \in 1..Len(price_history[s]) : Triggering(price_history[s][n])

C16_PriceChangeAlwaysAlerts ==
    [][\A t \in Tasks :
          (/\ task[t].pc # "idle" /\ task'[t].pc = "idle"
           /\ task[t].event.type = "price"
           /\ Abs(task[t].event.change) > 10) =>
              /\ task[t].rule = "price_change"
              /\ alerts[task[t].alert].subject = task[t].event.symbol
              /\ alerts[task[t].alert].severity =
                    (IF Abs(task[t].event.change) > 20 THEN "high" ELSE "medium")]_vars

\* C17: of two alerts of one key that both passed the sink, every callback
\* that was invoked with the later one was invoked with the earlier one
\* before (alert ids follow the order of emission).
C17_SameKeyDeliveredInOrder ==
    \A i \in 1..Len(alert_callbacks), a, b \in AlertIds :
        (a < b /\ SameKey(a, b) /\ PersistedOk(a) /\ PersistedOk(b)
           /\ DeliveredTo(i, b)) =>
            \E m, n \in 1..Len(delivered[i]) :
                m < n /\ delivered[i][m] = a /\ delivered[i][n] = b

\* C18: no maintenance loop calls the sink after stop() was called, and when
\* start() has returned no emission is left unfinished: every alert whose
\* emission was under way at stop() has reached every callback.
C18_CooperativeShutdown ==
    /\ ~monitor.late
    /\ monitor.start = "returned" =>
          /\ \A t \in Tasks : task[t].pc = "idle"
          /\ \A a \in monitor.emitting, i \in 1..Len(alert_callbacks) :
                DeliveredTo(i, a)

\* C19: after stop() on a running monitor both maintenance loops end,
\* start() returns and _cleanup has run once; _cleanup never runs twice.
C19_StopLeadsToReturn ==
    /\ monitor.stopped ~>
         (/\ monitor.stats = "done" /\ monitor.cleanup = "done"
          /\ monitor.start = "returned" /\ monitor.cleanups = 1)
    /\ [](monitor.cleanups <= 1)

\* the monitor was stopped after both loops had done their work at least
\* once and with an emission under way, and start() has returned
C19_Witness ==
    /\ monitor.stopped /\ monitor.start = "returned" /\ monitor.cleanups = 1
    /\ monitor.stats_writes > 0 /\ monitor.cleanup_runs > 0
    /\ monitor.emitting # {}

\* C20: the dashboard's resolve action on an active id whose write the sink
\* accepts leaves the alert resolved in the sink and out of the active set:
\* get_active_alerts no longer holds it and get_alert_stats counts one less.
C20_DashboardResolveLeavesActiveSet ==
    [][\A id \in ResolveIds :
          (DashboardResolve(id, TRUE) /\ id \in active_alerts
              /\ id \in GetRecentAlerts) =>
              /\ Last(db').id = id /\ Last(db').resolved
              /\ id \notin GetActiveAlerts'
              /\ GetAlertStats'["total_active"] = GetAlertStats["total_active"] - 1]_vars

\* C21: an alert manager exists, and an event is processed, only under a
\* configuration that supplies each of depeg_threshold,
\* price_change_threshold and volume_spike_threshold; with one of them
\* missing the start is refused.
C21_MissingThresholdIsFatal ==
    (manager.built \/ total_events_processed > 0) =>
        \A k \in ThresholdKeys : config[k] # NoValue

\* C22: when the processing of a swap raises (the sink refuses the alert), the
\* error stays inside process_event, the event is counted and the producer is
\* free for the next event, and the event leaves nothing behind that a later
\* event or query would see: no sample of it in the volume window, no alert
\* of it in the active map.
C22_FailedEventLeavesNoTrace ==
    [][PersistFail("p1") =>
          /\ task'["p1"] = IdleTask
          /\ total_events_processed' = total_events_processed + 1
          /\ task["p1"].alert \notin active_alerts'
          /\ \A n \in 1..Len(volume_history'[Pool1]) :
                volume_history'[Pool1][n].timestamp # task["p1"].event.timestamp]_vars

\* C23: the price windows change only when a price update is processed, and
\* then by exactly one (timestamp, price) sample appended to the window of
\* the update's own symbol, stablecoin or not; whatever the rules do
\* afterwards (fire, stay silent on cooldown, fail at the sink) the sample
\* stays and no other window is touched.
C23_OneSampleInOwnWindow ==
    [][/\ feed'.prices = feed.prices => price_history' = price_history
       /\ feed'.prices # feed.prices =>
            \E ev \in RuleInputs :
                /\ ev.type = "price"
                /\ ProcessPriceData("p1", ev)
                /\ price_history' =
                     [price_history EXCEPT ![ev.symbol] =
                        Append(@, [timestamp |-> ev.timestamp, price |-> ev.price])]
                /\ volume_history' = volume_history]_vars

\* a non-stablecoin's update that raised a price-change alert and a USDC
\* update whose depeg alert the sink refused, each with its one sample
C23_Witness ==
    /\ Len(price_history["WETH"]) = 1
    /\ Len(price_history["USDC"]) = 1
    /\ \E a \in AlertIds : alerts[a].event_type = "depeg_alert" /\ ~PersistedOk(a)
                             /\ InsertCalls(a) = 1
    /\ \E a \in AlertIds : alerts[a].event_type = "price_change"
                             /\ alerts[a].subject = "WETH"
    /\ Quiescent

\* C24: in every reachable state get_alert_stats() returns total_active equal
\* to the number of alerts get_active_alerts() returns and to the sum of its
\* critical, high, medium and low counts, each of them the number of active
\* alerts of that severity; both queries are values of the state and assign
\* nothing.
C24_StatsMatchActiveMap ==
    /\ GetAlertStats["total_active"] = Cardinality(GetActiveAlerts)
    /\ GetAlertStats["total_active"] =
         GetAlertStats["critical"] + GetAlertStats["high"]
             + GetAlertStats["medium"] + GetAlertStats["low"]
    /\ \A k \in Severities :
         GetAlertStats[k] =
             Cardinality({a \in GetActiveAlerts : alerts[a].severity = k})

\* two alerts of different severities were raised and one of them resolved
C24_Witness ==
    /\ Len(alerts) = 2
    /\ alerts[1].severity # alerts[2].severity
    /\ Cardinality(GetActiveAlerts) = 1
    /\ \E a \in AlertIds : alerts[a].resolved
    /\ GetAlertStats["total_active"] = 1

\* C25: every depeg alert carries a deviation of at least zero and is
\* critical exactly above 20%, high exactly above 10% and up to 20%, medium
\* exactly above the depeg threshold and up to 10%; every volume alert
\* carries a multiplier of at least zero and is high exactly above 5 and
\* medium otherwise.
C25_SeverityMatchesTrigger ==
    \A a \in AlertIds :
        /\ alerts[a].event_type = "depeg_alert" =>
              /\ alerts[a].value >= 0
              /\ alerts[a].severity = "critical" <=> alerts[a].value > DepegCriticalPct
              /\ alerts[a].severity = "high" <=>
                    (DepegHighPct < alerts[a].value /\ alerts[a].value <= DepegCriticalPct)
              /\ alerts[a].severity = "medium" <=>
                    (manager.depeg_threshold < alerts[a].value
                        /\ alerts[a].value <= DepegHighPct)
        /\ alerts[a].event_type = "volume_spike" =>
              /\ alerts[a].value >= 0
              /\ alerts[a].severity = "high" <=>
                    alerts[a].value > VolumeHighMultiplier * 100
              /\ alerts[a].severity = "medium" <=>
                    alerts[a].value <= VolumeHighMultiplier * 100

\* a depeg alert on the upper end of the high rung and a volume alert on the
\* upper end of the medium one, both emitted
C25_Witness ==
    /\ \E a \in AlertIds :
          /\ alerts[a].event_type = "depeg_alert"
          /\ alerts[a].value = DepegCriticalPct /\ alerts[a].severity = "high"
          /\ PersistedOk(a)
    /\ \E a \in AlertIds :
          /\ alerts[a].event_type = "volume_spike"
          /\ alerts[a].value = VolumeHighMultiplier * 100
          /\ alerts[a].severity = "medium"
          /\ PersistedOk(a)

\* C26: none of the first nine swaps of a pool raises a volume alert,
\* whatever its volume; from the tenth swap on, with the pool not on
\* cooldown, an alert is raised exactly when the swap's volume exceeds the
\* threshold times the average of the nine samples that came right before it
\* (the nine swaps before this one, the swap itself left out), and the
\* multiplier it carries is the volume over that average, also once the
\* window is full.
C26_AverageOfNinePreceding ==
    [][feed'.swaps # feed.swaps =>
          LET w == volume_history'[Pool1]
              n == Len(w)
              raised == Len(alerts') > Len(alerts)
              before == SubSeq(w, n - 9, n - 1)
              sum == SumSeq([k \in 1..Len(before) |-> before[k].volume])
          IN /\ feed'.swaps < MinVolumeSamples => ~raised
             /\ w[n].timestamp = feed.swaps
             /\ feed'.swaps >= MinVolumeSamples =>
                   /\ \A k \in 1..9 : before[k].timestamp = feed.swaps - 10 + k
                   /\ ~IsOnCooldown(VolumeSpikeKey(Pool1)) =>
                         (raised <=> w[n].volume * 9 >
                                       sum * manager.volume_spike_threshold)
                   /\ raised => Last(alerts').value = (w[n].volume * 900) \div sum]_vars

\* the window is full, one early SpikeVolume swap raised nothing, and the
\* swap just processed, beyond the window's capacity, raised the first alert
C26_Witness ==
    /\ feed.swaps > VolumeWindowCap
    /\ Len(volume_history[Pool1]) = VolumeWindowCap
    /\ feed.spikes = 2 /\ feed.spike_at = feed.swaps
    /\ Len(alerts) = 1 /\ task["p1"].pc = "store"

\* C27: a USDC update above the depeg threshold raises a depeg alert exactly
\* when the key of USDC has no recorded firing or its last firing lies the
\* cooldown duration or more back, and a swap that spikes raises a volume
\* alert exactly when the same holds of the key of its pool; what is recorded
\* for the other key plays no part, and a key is on cooldown exactly when
\* its firing is recorded and less than the duration old.
C27_CooldownPerKey ==
    [][LET raised == Len(alerts') > Len(alerts)
           fresh(k) == alert_cooldown[k] = NoTime
                           \/ now - alert_cooldown[k] >= manager.cooldown_duration
           w == volume_history'[Pool1]
       IN /\ \A k \in CooldownKeys : IsOnCooldown(k) <=> ~fresh(k)
          /\ (feed'.prices # feed.prices
                 /\ DeviationPct(Last(price_history'["USDC"]).price)
                        > manager.depeg_threshold) =>
                (raised <=> fresh(DepegKey("USDC")))
          /\ (feed'.swaps # feed.swaps /\ VolumeSpikes(w, Last(w).volume)) =>
                (raised <=> fresh(VolumeSpikeKey(Pool1)))]_vars

\* both keys carry a firing time, the volume alert was raised while the
\* depeg key was on cooldown, and a second depeg alert was raised the
\* moment the first one's cooldown was over
C27_Witness ==
    /\ alert_cooldown[VolumeSpikeKey(Pool1)] = 0
    /\ alert_cooldown[DepegKey("USDC")] = CooldownMinutes
    /\ \E a, b, c \in AlertIds :
          /\ a < b /\ b < c
          /\ alerts[a].event_type = "depeg_alert" /\ alerts[a].timestamp = 0
          /\ PersistedOk(a)
          /\ alerts[b].event_type = "volume_spike"
          /\ alerts[c].event_type = "depeg_alert"
          /\ alerts[c].timestamp = CooldownMinutes

\* C29: a call of insert_monitoring_stats or of cleanup_old_data that raises
\* leaves its loop at the loop test, a loop ends only with the running flag
\* cleared, and after a call that raised the loop makes its next call
\* unless the monitor is stopped first.
C29_LoopSurvivesSinkFailure ==
    /\ [][/\ StatsInsert(FALSE) => monitor'.stats = "check"
          /\ CleanupRun(FALSE) => monitor'.cleanup = "check"
          /\ (monitor.stats # "done" /\ monitor'.stats = "done") => ~monitor.running
          /\ (monitor.cleanup # "done" /\ monitor'.cleanup = "done")
                => ~monitor.running]_vars
    /\ (monitor.stats_errors = 1 /\ monitor.stats_writes = 1)
          ~> (monitor.stats_writes > 1 \/ monitor.stopped)
    /\ (monitor.cleanup_errors = 1 /\ monitor.cleanup_runs = 1)
          ~> (monitor.cleanup_runs > 1 \/ monitor.stopped)

\* the first call of each loop raised and each loop made a second one
\* while the monitor was running
C29_Witness ==
    /\ monitor.running
    /\ monitor.stats_errors >= 1 /\ monitor.stats_writes = 2
    /\ monitor.cleanup_errors >= 1 /\ monitor.cleanup_runs = 2
    /\ monitor.stats_errors + monitor.cleanup_errors = 3

\* C30: at any moment get_wait_time() is 0 when can_make_call() would return
\* true, and when it is w > 0 a call is refused now and would be allowed
\* w seconds later.
C30_WaitTimeMatchesLimit ==
    /\ Allowed(clock) => GetWaitTime = 0
    /\ GetWaitTime > 0 => ~Allowed(clock) /\ Allowed(clock + GetWaitTime)

\* C31: the calls accepted by make_call at times t <= c < t + time_window
\* are never more than max_calls, for every t; make_call accepts exactly
\* when fewer than max_calls accepted calls are less than time_window old,
\* and a refused call adds no call to the list.
C31_RateLimitHolds ==
    /\ [](\A t \in 0..MaxClock :
            Cardinality({n \in 1..Len(limiter.accepted) :
                            /\ t <= limiter.accepted[n]
                            /\ limiter.accepted[n] < t + limiter.time_window})
                <= limiter.max_calls)
    /\ [][MakeCall =>
            LET young == {n \in 1..Len(limiter.accepted) :
                            clock - limiter.accepted[n] < limiter.time_window}
                ok == Cardinality(young) < limiter.max_calls
            IN /\ limiter'.accepted # limiter.accepted <=> ok
               /\ ok => Last(limiter'.calls) = clock
                          /\ Len(limiter'.calls) = Cardinality(young) + 1
               /\ ~ok => /\ Len(limiter'.calls) = limiter.max_calls
                          /\ \A n \in 1..Len(limiter'.calls) :
                                \E k \in 1..Len(limiter.calls) :
                                    limiter'.calls[n] = limiter.calls[k]]_vars

\* the limiter of two calls has accepted a third call after refusing one
\* in a full window
C31_Witness ==
    /\ limiter.max_calls = 2
    /\ Len(limiter.accepted) = 3
    /\ Len(limiter.calls) = 2
    /\ ~Allowed(clock)

\* C32: in every reachable state, sink failures included, every alert of the
\* active map is unresolved and carries no resolved_at time.
C32_ActiveAlertsUnresolved ==
    \A a \in active_alerts :
        ~alerts[a].resolved /\ alerts[a].resolved_at = NoTime

\* C33: the cooldown map changes only when an emission has returned to its
\* rule, and then only at the key of the alert, which the sink accepted; an
\* emission the sink refuses leaves the map as it was, a key's recorded time
\* is that of an alert of the key that the sink accepted, and a triggering
\* event on a key that has no recorded time raises an alert.
C33_CooldownOnlyAfterEmission ==
    /\ [](\A k \in CooldownKeys :
            alert_cooldown[k] # NoTime =>
                \E a \in AlertIds :
                    /\ PersistedOk(a)
                    /\ alerts[a].timestamp = alert_cooldown[k]
                    /\ k = (IF alerts[a].event_type = "depeg_alert"
                            THEN DepegKey(alerts[a].subject)
                            ELSE <<"volume_spike", alerts[a].subject>>))
    /\ [][LET raised == Len(alerts') > Len(alerts)
              w == volume_history'[Pool1]
          IN /\ PersistFail("p1") => alert_cooldown' = alert_cooldown
             /\ alert_cooldown' # alert_cooldown =>
                   /\ task["p1"].pc = "post"
                   /\ PersistedOk(task["p1"].alert)
             /\ (feed'.prices # feed.prices
                    /\ DeviationPct(Last(price_history'["USDC"]).price)
                           > manager.depeg_threshold
                    /\ alert_cooldown[DepegKey("USDC")] = NoTime) => raised
             /\ (feed'.swaps # feed.swaps /\ VolumeSpikes(w, Last(w).volume)
                    /\ alert_cooldown[VolumeSpikeKey(Pool1)] = NoTime)
                   => raised]_vars

\* for the depeg key and for the pool's key alike, the sink refused a first
\* alert and the next triggering event, in the same minute, raised a second
\* one, which the sink accepted
C33_Witness ==
    \A type \in {"depeg_alert", "volume_spike"} :
        \E a, b \in AlertsOfType(type) :
            /\ a < b
            /\ alerts[a].timestamp = alerts[b].timestamp
            /\ InsertCalls(a) = 1 /\ ~PersistedOk(a)
            /\ PersistedOk(b)

\* C34: whatever the order of the start() and stop() calls, at most one
\* statistics loop and at most one cleanup loop are alive: the loops of a
\* second start() never run next to loops of the first.
C34_OneLoopOfEachKind ==
    /\ ~(Alive(monitor.stats) /\ Alive(monitor.restart.stats))
    /\ ~(Alive(monitor.cleanup) /\ Alive(monitor.restart.cleanup))

\* C28: the cooldown duration the manager compares against is the configured
\* cooldown_minutes, and 10 minutes when the key is absent.
C28_CooldownIsConfigured ==
    manager.built =>
        manager.cooldown_duration =
            ConfigGet("alerts.cooldown_minutes", CooldownMinutes)
====
